---- MODULE Spec2Model ----
(***************************************************************************)
(* Model of two parts of solar:                                            *)
(*   - the test-directive scanner, tools/tester/src/header.rs              *)
(*     (TestProps::load, TestProps::load_revisions, DirectiveParser,       *)
(*     directives_str, directives_file, line_directive);                   *)
(*   - the item model, crates/ast/src/ast/item.rs                          *)
(*     (PragmaTokens::as_name_and_value, the to_str helpers).              *)
(*                                                                         *)
(* A Rust &str is a sequence of one-character strings; all offsets are     *)
(* the 0-based byte offsets of the source (every modelled character is     *)
(* ASCII, so byte offsets and character offsets agree).  Option<T> is a    *)
(* sequence of length 0 (None) or 1 (Some).  A file is the sequence of     *)
(* its lines: <<l1, l2>> is the text "l1\nl2\n"; BufRead::read_line()      *)
(* hands out l1 and l2 (with the line feed), str::lines() hands them out   *)
(* without a carriage return that ends them.                               *)
(***************************************************************************)
EXTENDS Naturals, Sequences, FiniteSets

VARIABLES
    op,         \* scanner entry point running: "load" or "load_revisions"
    file,       \* the fixture file, a sequence of lines
    cfg,        \* load's `cfg: Option<&str>`, the selected revision
    idx,        \* lines consumed so far by the directives_* loop
    status,     \* "running", "returned" or "panicked"
    props,      \* load's `props: TestProps` (expected_errors left out)
    revisions,  \* load_revisions' `revisions: Vec<String>`
    panic,      \* the panic message once status = "panicked"
    call,       \* item.rs: the method call made, with its receiver
    ret         \* item.rs: the value that call returned

vars == <<op, file, cfg, idx, status, props, revisions, panic, call, ret>>

scanVars == <<op, file, cfg, idx, status, props, revisions, panic>>
astVars == <<call, ret>>

(***************************************************************************)
(* Bounds.                                                                 *)
(***************************************************************************)
MaxLines == 2
MaxTokens == 2

(***************************************************************************)
(* Option and string helpers.                                              *)
(***************************************************************************)
None == <<>>
Some(x) == <<x>>
IsSome(o) == Len(o) = 1
Unwrap(o) == o[1]

Range(s) == {s[i] : i \in 1..Len(s)}

\* &s[a..b] and &s[a..]
Slice(s, a, b) == SubSeq(s, a + 1, b)
SliceFrom(s, a) == SubSeq(s, a + 1, Len(s))

\* str::starts_with
StartsWith(s, p) == Len(s) >= Len(p) /\ SubSeq(s, 1, Len(p)) = p

\* str::strip_prefix
StripPrefix(s, p) == IF StartsWith(s, p) THEN Some(SliceFrom(s, Len(p))) ELSE None

\* str::find(char): byte offset of the first occurrence
Find(s, c) ==
    IF c \in Range(s)
    THEN Some((CHOOSE i \in 1..Len(s) : s[i] = c /\ \A j \in 1..(i - 1) : s[j] # c) - 1)
    ELSE None

\* u8::is_ascii_whitespace: space, tab, line feed, form feed, carriage return
IsAsciiWhitespace(c) == c \in {" ", "\t", "\n", "\f", "\r"}

\* U+000B, vertical tab (written as the character itself: it has no escape)
VT == ""

\* char::is_whitespace on ASCII: the White_Space characters U+0009..U+000D and
\* U+0020.  The non-ASCII ones (U+0085, U+00A0, U+1680, U+2000..U+200A, U+2028,
\* U+2029, U+202F, U+205F, U+3000) are outside the modelled alphabet.
IsWhitespace(c) == c \in {" ", "\t", "\n", VT, "\f", "\r"}

\* str::trim_start
TrimStart(s) ==
    IF \A i \in 1..Len(s) : IsWhitespace(s[i])
    THEN <<>>
    ELSE LET k == CHOOSE i \in 1..Len(s) :
                    ~IsWhitespace(s[i]) /\ \A j \in 1..(i - 1) : IsWhitespace(s[j])
         IN SubSeq(s, k, Len(s))

\* str::trim_end
TrimEnd(s) ==
    IF \A i \in 1..Len(s) : IsWhitespace(s[i])
    THEN <<>>
    ELSE LET k == CHOOSE i \in 1..Len(s) :
                    ~IsWhitespace(s[i]) /\ \A j \in (i + 1)..Len(s) : IsWhitespace(s[j])
         IN SubSeq(s, 1, k)

\* str::trim
Trim(s) == TrimStart(TrimEnd(s))

\* str::split_ascii_whitespace, collected: the maximal runs of non-whitespace
RECURSIVE SplitAsciiWhitespace(_)
SplitAsciiWhitespace(s) ==
    IF \A i \in 1..Len(s) : IsAsciiWhitespace(s[i])
    THEN <<>>
    ELSE LET b == CHOOSE i \in 1..Len(s) :
                    ~IsAsciiWhitespace(s[i]) /\ \A j \in 1..(i - 1) : IsAsciiWhitespace(s[j])
             e == CHOOSE i \in b..Len(s) :
                    /\ \A j \in b..i : ~IsAsciiWhitespace(s[j])
                    /\ (i = Len(s) \/ IsAsciiWhitespace(s[i + 1]))
         IN <<SubSeq(s, b, e)>> \o SplitAsciiWhitespace(SubSeq(s, e + 1, Len(s)))

(***************************************************************************)
(* Panic messages: the format string of the panic!() and its arguments.    *)
(* The backquotes of the source's format strings are left out.             *)
(***************************************************************************)
NoPanic == [fmt |-> "", args |-> <<>>]
Panic(fmt, args) == [fmt |-> fmt, args |-> args]

(***************************************************************************)
(* header.rs: TestProps.                                                   *)
(***************************************************************************)
\* `let comment = "//";` in load and load_revisions
Comment == <<"/", "/">>

\* TestProps::new.  expected_errors is filled by crate::errors::Error::load,
\* which is not part of header.rs, and is left out of the record.
TestProps_new ==
    [normalize_stdout |-> <<>>,
     normalize_stderr |-> <<>>,
     dont_check_compiler_stdout |-> FALSE,
     dont_check_compiler_stderr |-> FALSE,
     compare_output_lines_by_subset |-> FALSE,
     evm_version |-> None]

(***************************************************************************)
(* header.rs: TestDirective, DirectiveKind, DirectiveParser.               *)
(***************************************************************************)
KwEvmVersion == <<"e", "v", "m", "-", "v", "e", "r", "s", "i", "o", "n">>
NoDash == <<"n", "o", "-">>

\* TestDirective::DUMMY
TestDirective_DUMMY == [negative |-> FALSE, kind |-> "Dummy"]

\* Mutant of DirectiveKind::from_str_: matches on the keyword as a prefix
DirectiveKind_from_str_prefix(s) ==
    IF StartsWith(s, KwEvmVersion) THEN Some("EvmVersion") ELSE None

\* DirectiveKind::from_str_
DirectiveKind_from_str_(s) == IF s = KwEvmVersion THEN Some("EvmVersion") ELSE None

\* #[derive(Debug)] on DirectiveKind: the variant's name
DirectiveKind_Debug(kind) ==
    IF kind = "EvmVersion"
    THEN <<"E", "v", "m", "V", "e", "r", "s", "i", "o", "n">>
    ELSE <<"D", "u", "m", "m", "y">>

\* DirectiveParser::new
DirectiveParser_new(line) == [line |-> line, directive |-> TestDirective_DUMMY]

\* fn is_word_char inside next_word_idx
LowerCase == {"a", "b", "c", "d", "e", "f", "g", "h", "i", "j", "k", "l", "m",
              "n", "o", "p", "q", "r", "s", "t", "u", "v", "w", "x", "y", "z"}
UpperCase == {"A", "B", "C", "D", "E", "F", "G", "H", "I", "J", "K", "L", "M",
              "N", "O", "P", "Q", "R", "S", "T", "U", "V", "W", "X", "Y", "Z"}
Digit == {"0", "1", "2", "3", "4", "5", "6", "7", "8", "9"}
is_word_char(c) == c \in LowerCase \cup UpperCase \cup Digit \cup {"-", "_"}

\* The `for (i, byte) in self.line.bytes().enumerate()` loop of next_word_idx,
\* from offset i on with the current `start`; `end` is still None while it runs.
RECURSIVE next_word_loop(_, _, _)
next_word_loop(line, i, start) ==
    IF i >= Len(line)
    THEN <<start, None>>
    ELSE LET byte == line[i + 1] IN
         IF start = None
         THEN IF IsAsciiWhitespace(byte) THEN next_word_loop(line, i + 1, start)
              ELSE IF is_word_char(byte) THEN next_word_loop(line, i + 1, Some(i))
              ELSE <<start, None>>
         ELSE IF ~is_word_char(byte) THEN <<start, Some(i)>>
              ELSE next_word_loop(line, i + 1, start)

\* DirectiveParser::next_word_idx: (start, end)
next_word_idx(line) == next_word_loop(line, 0, None)

\* DirectiveParser::parse_directive: the parser after the call
parse_directive(parser) ==
    LET w == next_word_idx(parser.line) IN
    IF ~(IsSome(w[1]) /\ IsSome(w[2]))
    THEN parser
    ELSE LET start == Unwrap(w[1])
             end == Unwrap(w[2])
             word0 == Slice(parser.line, start, end)
             negative == StartsWith(word0, NoDash)
             word == IF negative THEN SliceFrom(word0, 3) ELSE word0
             kind == DirectiveKind_from_str_(word)
         IN IF kind = None
            THEN parser
            ELSE [line |-> SliceFrom(parser.line, end),
                  directive |-> [negative |-> negative, kind |-> Unwrap(kind)]]

\* DirectiveParser::expect_no_negative: the panic it raises, if any
expect_no_negative(parser) ==
    IF parser.directive.negative
    THEN Panic("unexpected negative directive for {:?}",
               <<DirectiveKind_Debug(parser.directive.kind)>>)
    ELSE NoPanic

\* <String as FromStr>::from_str: an owned copy of the slice, never an Err
String_from_str(word) == [ok |-> TRUE, val |-> word]

\* Mutant of word_value: a missing word is skipped instead of being fatal
word_value_silent(parser, value) ==
    LET w == next_word_idx(parser.line) IN
    IF ~(IsSome(w[1]) /\ IsSome(w[2]))
    THEN [value |-> value, panic |-> NoPanic]
    ELSE IF expect_no_negative(parser) # NoPanic
    THEN [value |-> value, panic |-> expect_no_negative(parser)]
    ELSE [value |-> Some(Slice(parser.line, Unwrap(w[1]), Unwrap(w[2]))), panic |-> NoPanic]

\* DirectiveParser::word_value::<String>: the new *value and the panic, if any
word_value(parser, value) ==
    LET w == next_word_idx(parser.line) IN
    IF ~(IsSome(w[1]) /\ IsSome(w[2]))
    THEN [value |-> value, panic |-> Panic("expected a word value", <<>>)]
    ELSE IF expect_no_negative(parser) # NoPanic
    THEN [value |-> value, panic |-> expect_no_negative(parser)]
    ELSE LET word == Slice(parser.line, Unwrap(w[1]), Unwrap(w[2]))
             parsed == String_from_str(word)
         IN IF parsed.ok
            THEN [value |-> Some(parsed.val), panic |-> NoPanic]
            ELSE [value |-> value, panic |-> Panic("called Result::unwrap() on an Err value", <<>>)]

(***************************************************************************)
(* header.rs: line_directive, directives_str, directives_file.             *)
(***************************************************************************)
\* Mutant of line_directive: a marker without `]` is taken as an unscoped line
line_directive_unscoped(comment, ln0) ==
    LET ln1 == TrimStart(ln0)
        stripped == StripPrefix(ln1, comment)
    IN IF IsSome(stripped)
       THEN LET ln == TrimStart(Unwrap(stripped)) IN
            IF StartsWith(ln, <<"[">>) /\ Find(ln, "]") # None
            THEN [tag |-> "some",
                  lncfg |-> Some(Slice(ln, 1, Unwrap(Find(ln, "]")))),
                  ln |-> TrimStart(SliceFrom(ln, Unwrap(Find(ln, "]")) + 1)),
                  panic |-> NoPanic]
            ELSE [tag |-> "some", lncfg |-> None, ln |-> ln, panic |-> NoPanic]
       ELSE [tag |-> "none", lncfg |-> None, ln |-> <<>>, panic |-> NoPanic]

\* Mutant of line_directive: the malformed-marker panic does not quote the line
line_directive_quiet(comment, ln0) ==
    LET ln1 == TrimStart(ln0)
        stripped == StripPrefix(ln1, comment)
    IN IF IsSome(stripped)
       THEN LET ln == TrimStart(Unwrap(stripped)) IN
            IF StartsWith(ln, <<"[">>)
            THEN IF Find(ln, "]") = None
                 THEN [tag |-> "panic", lncfg |-> None, ln |-> <<>>,
                       panic |-> Panic("malformed condition directive: expected {comment}[foo], found {ln}",
                                       <<comment>>)]
                 ELSE [tag |-> "some",
                       lncfg |-> Some(Slice(ln, 1, Unwrap(Find(ln, "]")))),
                       ln |-> TrimStart(SliceFrom(ln, Unwrap(Find(ln, "]")) + 1)),
                       panic |-> NoPanic]
            ELSE [tag |-> "some", lncfg |-> None, ln |-> ln, panic |-> NoPanic]
       ELSE [tag |-> "none", lncfg |-> None, ln |-> <<>>, panic |-> NoPanic]

\* line_directive: tag "none" (None), "some" (Some((lncfg, ln))) or "panic"
line_directive(comment, ln0) ==
    LET ln1 == TrimStart(ln0)
        stripped == StripPrefix(ln1, comment)
    IN IF IsSome(stripped)
       THEN LET ln == TrimStart(Unwrap(stripped)) IN
            IF StartsWith(ln, <<"[">>)
            THEN LET close_brace == Find(ln, "]") IN
                 IF close_brace = None
                 THEN [tag |-> "panic", lncfg |-> None, ln |-> <<>>,
                       panic |-> Panic("malformed condition directive: expected {comment}[foo], found {ln}",
                                       <<comment, ln>>)]
                 ELSE [tag |-> "some",
                       lncfg |-> Some(Slice(ln, 1, Unwrap(close_brace))),
                       ln |-> TrimStart(SliceFrom(ln, Unwrap(close_brace) + 1)),
                       panic |-> NoPanic]
            ELSE [tag |-> "some", lncfg |-> None, ln |-> ln, panic |-> NoPanic]
       ELSE [tag |-> "none", lncfg |-> None, ln |-> <<>>, panic |-> NoPanic]

\* The closure load passes to directives_str: props after the call and the panic
load_closure(p, c, revision, line) ==
    IF IsSome(revision) /\ revision # c
    THEN [props |-> p, panic |-> NoPanic]
    ELSE LET parser == parse_directive(DirectiveParser_new(line)) IN
         IF parser.directive.kind = "Dummy"
         THEN [props |-> p, panic |-> NoPanic]
         ELSE LET r == word_value(parser, p.evm_version) IN
              [props |-> [p EXCEPT !.evm_version = r.value], panic |-> r.panic]

\* An item of str::lines(): the text between two line feeds, without the
\* carriage return that ends it, if there is one
lines_item(raw) ==
    IF raw # <<>> /\ raw[Len(raw)] = "\r" THEN SubSeq(raw, 1, Len(raw) - 1) ELSE raw

\* One iteration of the loop of directives_str, as load drives it, on the text
\* `raw` of the file up to the next line feed
directives_str(comment, p, c, raw) ==
    LET line == lines_item(raw)
        ld == line_directive(comment, line)
    IN
    IF ld.tag = "panic" THEN [props |-> p, panic |-> ld.panic]
    ELSE IF ld.tag = "none" THEN [props |-> p, panic |-> NoPanic]
    ELSE load_closure(p, c, ld.lncfg, ld.ln)

\* `const S: &str = "revisions:";`
S == <<"r", "e", "v", "i", "s", "i", "o", "n", "s", ":">>

\* The closure load_revisions passes to directives_file: revisions after the call
load_revisions_closure(revs, revision, line) ==
    IF IsSome(revision) \/ revs # <<>> \/ ~StartsWith(line, S)
    THEN revs
    ELSE revs \o SplitAsciiWhitespace(SliceFrom(line, Len(S)))

\* One iteration of the loop of directives_file, as load_revisions drives it,
\* on a line read_line returned (the line feed that ends it is trimmed away)
directives_file(comment, revs, line) ==
    LET ln == Trim(line)
        ld == line_directive(comment, ln)
    IN IF ld.tag = "panic" THEN [revisions |-> revs, panic |-> ld.panic]
       ELSE IF ld.tag = "none" THEN [revisions |-> revs, panic |-> NoPanic]
       ELSE [revisions |-> load_revisions_closure(revs, ld.lncfg, ld.ln), panic |-> NoPanic]

(***************************************************************************)
(* Fixture files the scanner is run on.                                    *)
(***************************************************************************)
Sp == <<" ">>
Tab == <<"\t">>
Paris == <<"p", "a", "r", "i", "s">>
X == <<"x">>
RevA == <<"a">>
RevB == <<"b">>
ScopeA == <<"[", "a", "]">>
ScopeB == <<"[", "b", "]">>
Foo == <<"f", "o", "o">>
Bar == <<"b", "a", "r">>

FixtureLines ==
    { Comment \o Sp \o KwEvmVersion \o Sp \o Paris,                \* // evm-version paris
      Comment \o Sp \o KwEvmVersion \o Sp \o Paris \o Sp,          \* // evm-version paris_
      Comment \o Sp \o KwEvmVersion \o <<":">> \o Sp \o Paris,     \* // evm-version: paris
      Comment \o ScopeA \o Sp \o KwEvmVersion \o Sp \o X,          \* //[a] evm-version x
      Comment \o ScopeA \o Sp \o KwEvmVersion \o Sp \o X \o Sp,    \* //[a] evm-version x_
      Comment \o ScopeB \o KwEvmVersion \o Sp \o Paris \o Sp,      \* //[b]evm-version paris_
      Comment \o Sp \o NoDash \o KwEvmVersion,                     \* // no-evm-version
      Comment \o Sp \o NoDash \o KwEvmVersion \o Sp,               \* // no-evm-version_
      Comment \o Sp \o NoDash \o KwEvmVersion \o Sp \o Paris \o Sp,  \* // no-evm-version paris_
      Comment \o ScopeA \o Sp \o NoDash \o KwEvmVersion \o Sp \o X \o Sp,  \* //[a] no-evm-version x_
      Comment \o <<"[", "a">>,                                     \* //[a
      Comment \o Sp \o <<"[", "b">> \o Sp \o KwEvmVersion \o Sp \o X \o Sp,  \* // [b evm-version x_
      Comment \o Sp \o Foo \o Sp \o Bar \o Sp,                     \* // foo bar_
      Foo \o Sp \o Bar,                                            \* foo bar
      Comment \o Sp \o S \o Sp \o RevA \o Sp \o RevB,              \* // revisions: a b
      Comment \o Sp \o S,                                          \* // revisions:
      Comment \o S \o Sp \o RevB \o Sp,                            \* //revisions: b_
      Comment \o ScopeA \o Sp \o S \o Sp \o RevB,                  \* //[a] revisions: b
      Comment \o Sp \o KwEvmVersion,                               \* // evm-version
      Sp \o Comment \o Sp \o KwEvmVersion \o Sp \o X \o Tab,       \* _// evm-version x<tab>
      <<>>,                                                        \* (empty line)
      Comment \o Sp \o KwEvmVersion \o Sp \o Paris \o <<"\r">>,     \* // evm-version paris<cr>
      <<VT>> \o Comment \o Sp \o KwEvmVersion \o Sp \o X \o Sp,      \* <vt>// evm-version x_
      Comment \o Sp \o KwEvmVersion \o <<"s">> \o Sp \o X \o Sp }  \* // evm-versions x_

\* the sequences over A of length at most n
RECURSIVE SeqsUpTo(_, _)
SeqsUpTo(A, n) ==
    IF n = 0
    THEN {<<>>}
    ELSE LET shorter == SeqsUpTo(A, n - 1) IN
         shorter \cup {Append(f, a) : f \in {g \in shorter : Len(g) = n - 1}, a \in A}

Files == SeqsUpTo(FixtureLines, MaxLines)

\* the revisions a run of load may select
Cfgs == {None, Some(RevA), Some(RevB)}

(***************************************************************************)
(* The scanner as a state machine: one step per line of the file.          *)
(***************************************************************************)
NoCall == [fn |-> "none"]

Init ==
    /\ op \in {"load", "load_revisions"}
    /\ file \in Files
    /\ cfg \in (IF op = "load" THEN Cfgs ELSE {None})
    /\ idx = 0
    /\ status = "running"
    /\ props = TestProps_new
    /\ revisions = <<>>
    /\ panic = NoPanic
    /\ call = NoCall
    /\ ret = NoCall

\* TestProps::load: one iteration of directives_str's `for` loop
LoadLine ==
    /\ op = "load"
    /\ status = "running"
    /\ idx < Len(file)
    /\ LET r == directives_str(Comment, props, cfg, file[idx + 1]) IN
        /\ props' = r.props
        /\ panic' = r.panic
        /\ status' = IF r.panic # NoPanic THEN "panicked" ELSE "running"
    /\ idx' = idx + 1
    /\ UNCHANGED <<op, file, cfg, revisions, call, ret>>

\* TestProps::load: the loop is over, `props` is returned
LoadReturn ==
    /\ op = "load"
    /\ status = "running"
    /\ idx = Len(file)
    /\ status' = "returned"
    /\ UNCHANGED <<op, file, cfg, idx, props, revisions, panic, call, ret>>

\* TestProps::load_revisions: one iteration of directives_file's `loop`
RevisionsLine ==
    /\ op = "load_revisions"
    /\ status = "running"
    /\ idx < Len(file)
    /\ LET r == directives_file(Comment, revisions, file[idx + 1]) IN
        /\ revisions' = r.revisions
        /\ panic' = r.panic
        /\ status' = IF r.panic # NoPanic THEN "panicked" ELSE "running"
    /\ idx' = idx + 1
    /\ UNCHANGED <<op, file, cfg, props, call, ret>>

\* TestProps::load_revisions: read_line returned 0, `revisions` is returned
RevisionsReturn ==
    /\ op = "load_revisions"
    /\ status = "running"
    /\ idx = Len(file)
    /\ status' = "returned"
    /\ UNCHANGED <<op, file, cfg, idx, props, revisions, panic, call, ret>>

Next ==
    \/ LoadLine
    \/ LoadReturn
    \/ RevisionsLine
    \/ RevisionsReturn

Spec == Init /\ [][Next]_vars

(***************************************************************************)
(* Vocabulary of the claims about the scanner: the shape of a line, stated *)
(* by position and independently of the parsing functions above.           *)
(***************************************************************************)
\* every character of s[a..b] (1-based, inclusive) is white space
WhiteRun(s, a, b) == \A j \in a..b : IsWhitespace(s[j])

\* the positions where the text after `//` and the white space following it starts
BodyStarts(line) ==
    {k \in 3..(Len(line) + 1) :
        /\ \E i \in 1..(k - 2) :
            /\ line[i] = "/" /\ line[i + 1] = "/"
            /\ WhiteRun(line, 1, i - 1)
            /\ WhiteRun(line, i + 2, k - 1)
        /\ (k = Len(line) + 1 \/ ~IsWhitespace(line[k]))}

IsCommentLine(line) == BodyStarts(line) # {}

\* the text of a comment line after `//` and leading white space
Body(line) == SubSeq(line, CHOOSE k \in BodyStarts(line) : TRUE, Len(line))

HasMarker(line) == IsCommentLine(line) /\ Body(line) # <<>> /\ Body(line)[1] = "["

\* `//[foo` with no closing bracket
Unterminated(line) == HasMarker(line) /\ "]" \notin Range(Body(line))

WellFormedMarker(line) == HasMarker(line) /\ "]" \in Range(Body(line))

ClosePos(b) == CHOOSE i \in 1..Len(b) : b[i] = "]" /\ \A j \in 1..(i - 1) : b[j] # "]"

\* the revision a comment line is scoped to, if any
ScopeOf(line) ==
    IF WellFormedMarker(line)
    THEN Some(SubSeq(Body(line), 2, ClosePos(Body(line)) - 1))
    ELSE None

\* the directive text of a comment line: what follows the marker, if there is one
DirectiveText(line) ==
    IF WellFormedMarker(line)
    THEN LET b == Body(line)
             after == SubSeq(b, ClosePos(b) + 1, Len(b))
             ks == {k \in 1..(Len(after) + 1) :
                       /\ WhiteRun(after, 1, k - 1)
                       /\ (k = Len(after) + 1 \/ ~IsWhitespace(after[k]))}
         IN SubSeq(after, CHOOSE k \in ks : TRUE, Len(after))
    ELSE Body(line)

\* the line takes part in a scan that selected revision c
AppliesTo(line, c) == ScopeOf(line) = None \/ ScopeOf(line) = c

\* t starts, after white space, with a word character
HasLeadingWord(t) ==
    \E b \in 1..Len(t) : is_word_char(t[b]) /\ \A j \in 1..(b - 1) : IsAsciiWhitespace(t[j])

WordBegin(t) ==
    CHOOSE b \in 1..Len(t) : is_word_char(t[b]) /\ \A j \in 1..(b - 1) : IsAsciiWhitespace(t[j])

WordLast(t) ==
    CHOOSE e \in WordBegin(t)..Len(t) :
        /\ \A j \in WordBegin(t)..e : is_word_char(t[j])
        /\ (e = Len(t) \/ ~is_word_char(t[e + 1]))

\* the leading word of t and what follows it
LeadingWord(t) == SubSeq(t, WordBegin(t), WordLast(t))
AfterWord(t) == SubSeq(t, WordLast(t) + 1, Len(t))

IsWord(w) == w # <<>> /\ \A j \in 1..Len(w) : is_word_char(w[j])

\* `evm-version <word>`: keyword, one space, a word, end of line
IsSpaceForm(t) ==
    /\ Len(t) > Len(KwEvmVersion) + 1
    /\ SubSeq(t, 1, Len(KwEvmVersion) + 1) = KwEvmVersion \o <<" ">>
    /\ IsWord(SubSeq(t, Len(KwEvmVersion) + 2, Len(t)))
SpaceFormValue(t) == SubSeq(t, Len(KwEvmVersion) + 2, Len(t))

\* `evm-version: <word>`: keyword, colon, one space, a word, end of line
IsColonForm(t) ==
    /\ Len(t) > Len(KwEvmVersion) + 2
    /\ SubSeq(t, 1, Len(KwEvmVersion) + 2) = KwEvmVersion \o <<":", " ">>
    /\ IsWord(SubSeq(t, Len(KwEvmVersion) + 3, Len(t)))

\* line i of f is the only comment line of f
OnlyCommentLine(f, i) == \A j \in 1..Len(f) : j # i => ~IsCommentLine(f[j])

\* the line the scan consumed last
LastLine == file[idx]

(***************************************************************************)
(* Claims about the scanner.                                               *)
(***************************************************************************)
FmtMalformed == "malformed condition directive: expected {comment}[foo], found {ln}"
FmtNoWord == "expected a word value"
FmtNegative == "unexpected negative directive for {:?}"

\* C1: load, having consumed an unscoped comment line `// evm-version <word>`
\* that ends right after the word, has not aborted and has
\* evm_version = Some(<word>), whatever revision was selected.
C1_SpaceFormSetsEvmVersion ==
    (/\ op = "load" /\ idx >= 1
     /\ IsCommentLine(LastLine) /\ ~HasMarker(LastLine)
     /\ IsSpaceForm(Body(LastLine)))
    => (/\ status # "panicked"
        /\ props.evm_version = Some(SpaceFormValue(Body(LastLine))))

\* C2 (as stated): load on a file whose only comment line is
\* `// evm-version: <word>` does not abort, and returns evm_version = None.
C2_ColonFormIsIgnored ==
    (/\ op = "load"
     /\ \E i \in 1..Len(file) :
            /\ OnlyCommentLine(file, i)
            /\ IsCommentLine(file[i]) /\ ~HasMarker(file[i])
            /\ IsColonForm(Body(file[i])))
    => (/\ status # "panicked"
        /\ status = "returned" => props.evm_version = None)

\* C2 (amended): load, having consumed an unscoped comment line
\* `// evm-version: <word>`, has aborted with "expected a word value"; it never
\* returns, and when that line is the file's only comment line evm_version is
\* still None at the abort.
C2_ColonFormAborts ==
    /\ (/\ op = "load" /\ idx >= 1
        /\ IsCommentLine(LastLine) /\ ~HasMarker(LastLine)
        /\ IsColonForm(Body(LastLine)))
       => (/\ status = "panicked"
           /\ panic = Panic(FmtNoWord, <<>>)
           /\ OnlyCommentLine(file, idx) => props.evm_version = None)
    /\ (op = "load" /\ status = "returned")
       => \A i \in 1..Len(file) :
            ~(IsCommentLine(file[i]) /\ ~HasMarker(file[i]) /\ IsColonForm(Body(file[i])))

C2_Witness ==
    /\ op = "load" /\ idx = 2 /\ status = "panicked"
    /\ IsCommentLine(LastLine) /\ ~HasMarker(LastLine)
    /\ IsColonForm(Body(LastLine))
    /\ OnlyCommentLine(file, idx)
    /\ props.evm_version = None

\* C3: a load step over a comment line `//[r] evm-version <word>` sets
\* evm_version = Some(<word>) when revision r is selected, and otherwise (another
\* revision, or none) leaves props as they were; it aborts in neither case.
C3_RevisionScoping ==
    [][(/\ op = "load" /\ status = "running" /\ idx < Len(file)
        /\ WellFormedMarker(file[idx + 1])
        /\ IsSpaceForm(DirectiveText(file[idx + 1])))
       => (/\ status' # "panicked"
           /\ IF cfg = ScopeOf(file[idx + 1])
              THEN props'.evm_version = Some(SpaceFormValue(DirectiveText(file[idx + 1])))
              ELSE props' = props)]_vars

\* the names load_revisions is to return for file f: those of the first unscoped
\* comment line starting with `revisions:`, none when there is no such line
IsRevisionsLine(line) ==
    IsCommentLine(line) /\ ~HasMarker(line) /\ StartsWith(Body(line), S)
DeclaredRevisions(f) ==
    IF \E i \in 1..Len(f) : IsRevisionsLine(f[i])
    THEN LET first == CHOOSE i \in 1..Len(f) :
                        IsRevisionsLine(f[i]) /\ \A j \in 1..(i - 1) : ~IsRevisionsLine(f[j])
         IN SplitAsciiWhitespace(SubSeq(Body(f[first]), Len(S) + 1, Len(Body(f[first]))))
    ELSE <<>>

\* C4: load_revisions returns exactly the names of the first unscoped
\* `revisions:` line; no later and no scoped `revisions:` line adds to them,
\* also when the first line declares no name.
C4_FirstRevisionsLineWins ==
    (op = "load_revisions" /\ status = "returned")
    => revisions = DeclaredRevisions(file)

\* C5: load, having consumed a comment line that applies to the selected
\* revision and whose directive word is `no-evm-version`, has aborted.
C5_NegatedEvmVersionAborts ==
    (/\ op = "load" /\ idx >= 1
     /\ IsCommentLine(LastLine) /\ ~Unterminated(LastLine)
     /\ AppliesTo(LastLine, cfg)
     /\ HasLeadingWord(DirectiveText(LastLine))
     /\ LeadingWord(DirectiveText(LastLine)) = NoDash \o KwEvmVersion)
    => status = "panicked"

\* C6: a scan (load under any revision, or load_revisions) that has consumed a
\* comment line whose text starts with `[` and holds no `]` has aborted at that
\* line with the malformed-marker panic; a scan that returned met no such line.
C6_UnterminatedMarkerAborts ==
    /\ (idx >= 1 /\ Unterminated(LastLine))
       => (status = "panicked" /\ panic.fmt = FmtMalformed)
    /\ status = "returned" => \A i \in 1..Len(file) : ~Unterminated(file[i])

C6_Witness ==
    /\ op = "load" /\ cfg = Some(RevB) /\ idx = 2
    /\ Unterminated(LastLine)
    /\ status = "panicked"

\* the panic message quotes the content of the line: one of its arguments is the
\* text of the line after `//` and white space, up to trailing white space
NamesLineContent(msg, line) ==
    \E a \in 1..Len(msg.args) :
        /\ msg.args[a] # <<>>
        /\ \E k \in BodyStarts(line) : \E m \in k..Len(line) :
            /\ msg.args[a] = SubSeq(line, k, m)
            /\ WhiteRun(line, m + 1, Len(line))

\* C7 (as stated): every abort of the scanner carries a diagnostic that names
\* the content of the offending line.
C7_EveryPanicNamesLine ==
    status = "panicked" => NamesLineContent(panic, LastLine)

\* C7 (amended): an abort names the content of the offending line exactly when
\* it is the unterminated-marker abort; the negated-directive abort names only
\* the directive kind, and the missing-value abort is a fixed message.
C7_OnlyMarkerPanicNamesLine ==
    status = "panicked"
    => /\ Unterminated(LastLine) <=> NamesLineContent(panic, LastLine)
       /\ Unterminated(LastLine) => panic.fmt = FmtMalformed
       /\ ~Unterminated(LastLine)
          => \/ panic = Panic(FmtNoWord, <<>>)
             \/ panic = Panic(FmtNegative, <<DirectiveKind_Debug("EvmVersion")>>)

C7_Witness ==
    /\ status = "panicked"
    /\ Unterminated(LastLine)
    /\ NamesLineContent(panic, LastLine)
    /\ Len(Body(LastLine)) > 2

\* a comment line, its marker well formed or absent, with a leading word
HasDirectiveWord(line) ==
    /\ IsCommentLine(line) /\ ~Unterminated(line)
    /\ HasLeadingWord(DirectiveText(line))
DirectiveWord(line) == LeadingWord(DirectiveText(line))

\* C8 (as stated): a load step over a comment line whose leading word is
\* anything other than `evm-version` neither aborts nor changes props.
C8_OtherWordIsNoOp ==
    [][(/\ op = "load" /\ status = "running" /\ idx < Len(file)
        /\ HasDirectiveWord(file[idx + 1])
        /\ DirectiveWord(file[idx + 1]) # KwEvmVersion)
       => (status' # "panicked" /\ props' = props)]_vars

\* w without one leading `no-`
WithoutNo(w) == IF StartsWith(w, NoDash) THEN SubSeq(w, Len(NoDash) + 1, Len(w)) ELSE w

\* C8 (amended): a load step over a comment line whose leading word, with one
\* leading `no-` removed, is anything other than `evm-version` neither aborts
\* nor changes props.
C8_OtherKeywordIsNoOp ==
    [][(/\ op = "load" /\ status = "running" /\ idx < Len(file)
        /\ HasDirectiveWord(file[idx + 1])
        /\ WithoutNo(DirectiveWord(file[idx + 1])) # KwEvmVersion)
       => (status' # "panicked" /\ props' = props)]_vars

C8_Witness ==
    /\ op = "load" /\ idx = 2 /\ status = "running"
    /\ HasDirectiveWord(LastLine)
    /\ AppliesTo(LastLine, cfg)
    /\ WithoutNo(DirectiveWord(LastLine)) # KwEvmVersion
    /\ StartsWith(DirectiveWord(LastLine), KwEvmVersion)
    /\ props.evm_version # None

\* an `evm-version` directive line: the keyword as leading word, then a word
IsEvmVersionLine(line) ==
    /\ HasDirectiveWord(line)
    /\ DirectiveWord(line) = KwEvmVersion
    /\ HasLeadingWord(AfterWord(DirectiveText(line)))
EvmVersionValue(line) == LeadingWord(AfterWord(DirectiveText(line)))

\* the positions of the evm-version lines of f that apply under revision c
ApplicableEvmVersionLines(f, c) ==
    {i \in 1..Len(f) : IsEvmVersionLine(f[i]) /\ AppliesTo(f[i], c)}

MaxOf(ns) == CHOOSE m \in ns : \A n \in ns : n <= m

\* C12: on a file made of evm-version lines, several of which apply to the
\* selected revision, load does not abort, evm_version is the value of the
\* applicable line consumed last, and the returned evm_version is the value of
\* the last applicable line of the file; lines of another revision change nothing.
C12_LastEvmVersionWins ==
    (/\ op = "load"
     /\ \A i \in 1..Len(file) : IsEvmVersionLine(file[i])
     /\ Cardinality(ApplicableEvmVersionLines(file, cfg)) >= 2)
    => /\ status # "panicked"
       /\ \A i \in ApplicableEvmVersionLines(file, cfg) :
            (i <= idx /\ \A j \in ApplicableEvmVersionLines(file, cfg) : j <= idx => j <= i)
            => props.evm_version = Some(EvmVersionValue(file[i]))
       /\ status = "returned"
          => props.evm_version =
                Some(EvmVersionValue(file[MaxOf(ApplicableEvmVersionLines(file, cfg))]))

\* What the code does for C12: a load that returns has evm_version set to the
\* value of the last applicable evm-version line of the file (None when there
\* is none); the order of the claim holds on every run that does not abort.
C12_LastWinsOnReturn ==
    (op = "load" /\ status = "returned")
    => props.evm_version =
         IF ApplicableEvmVersionLines(file, cfg) = {}
         THEN None
         ELSE Some(EvmVersionValue(file[MaxOf(ApplicableEvmVersionLines(file, cfg))]))

(***************************************************************************)
(* item.rs: PragmaTokens and IdentOrStrLit.  Ident, StrLit, SemverReq,     *)
(* Token and Span are leaf types built elsewhere; a few values of each.    *)
(***************************************************************************)
Symbols == {"solidity", "abicoder", "v2"}
Spans == {[lo |-> 0, hi |-> 8], [lo |-> 9, hi |-> 11]}
Idents == [name : Symbols, span : Spans]
StrLits == [span : Spans, value : Symbols]
SemverReqs == {"^0.8.0", ">=0.7.0 <0.9.0"}
Tokens == {"(", "?", "x"}

\* enum IdentOrStrLit { Ident(Ident), StrLit(StrLit) }
IdentOrStrLit ==
    [variant : {"Ident"}, f0 : Idents] \cup [variant : {"StrLit"}, f0 : StrLits]

\* Symbol::as_str: the text a symbol was interned from (a symbol is kept as
\* that text here)
Symbol_as_str(sym) == sym

\* Ident::as_str
Ident_as_str(ident) == Symbol_as_str(ident.name)

\* Mutant of IdentOrStrLit::value: a string literal keeps its quotes
IdentOrStrLit_value_quoted(self) ==
    IF self.variant = "Ident"
    THEN Ident_as_str(self.f0)
    ELSE "'" \o Symbol_as_str(self.f0.value) \o "'"

\* IdentOrStrLit::value
IdentOrStrLit_value(self) ==
    IF self.variant = "Ident"
    THEN Ident_as_str(self.f0)
    ELSE Symbol_as_str(self.f0.value)

\* IdentOrStrLit::span
IdentOrStrLit_span(self) ==
    IF self.variant = "Ident"
    THEN self.f0.span
    ELSE self.f0.span

\* the Option<IdentOrStrLit> values
OptionIdentOrStrLit == {None} \cup {Some(v) : v \in IdentOrStrLit}

\* enum PragmaTokens { Version(Ident, SemverReq), Custom(IdentOrStrLit,
\* Option<IdentOrStrLit>), Verbatim(Vec<Token>) }
PragmaTokens ==
    [variant : {"Version"}, f0 : Idents, f1 : SemverReqs]
    \cup [variant : {"Custom"}, f0 : IdentOrStrLit, f1 : OptionIdentOrStrLit]
    \cup [variant : {"Verbatim"}, f0 : SeqsUpTo(Tokens, MaxTokens)]

\* Mutant of as_name_and_value: the Version pragma's name is returned as well
as_name_and_value_version(self) ==
    IF self.variant = "Custom" THEN Some(<<self.f0, self.f1>>)
    ELSE IF self.variant = "Version"
    THEN Some(<<[variant |-> "Ident", f0 |-> self.f0], None>>)
    ELSE None

\* PragmaTokens::as_name_and_value: Option<(&IdentOrStrLit, Option<&IdentOrStrLit>)>
as_name_and_value(self) ==
    IF self.variant = "Custom" THEN Some(<<self.f0, self.f1>>) ELSE None

(***************************************************************************)
(* item.rs: the closed enums, the keyword each variant is documented with  *)
(* (its doc comment), and to_str.                                          *)
(***************************************************************************)
ContractKind == {"Contract", "AbstractContract", "Interface", "Library"}
ContractKind_doc(v) ==
    CASE v = "Contract" -> "contract"
      [] v = "AbstractContract" -> "abstract contract"
      [] v = "Interface" -> "interface"
      [] v = "Library" -> "library"

\* Mutant of ContractKind::to_str: AbstractContract rendered like Contract
ContractKind_to_str_merged(self) ==
    CASE self = "Contract" -> "contract"
      [] self = "AbstractContract" -> "contract"
      [] self = "Interface" -> "interface"
      [] self = "Library" -> "library"

ContractKind_to_str(self) ==
    CASE self = "Contract" -> "contract"
      [] self = "AbstractContract" -> "abstract contract"
      [] self = "Interface" -> "interface"
      [] self = "Library" -> "library"

FunctionKind == {"Constructor", "Function", "Fallback", "Receive", "Modifier"}
FunctionKind_doc(v) ==
    CASE v = "Constructor" -> "constructor"
      [] v = "Function" -> "function"
      [] v = "Fallback" -> "fallback"
      [] v = "Receive" -> "receive"
      [] v = "Modifier" -> "modifier"
FunctionKind_to_str(self) ==
    CASE self = "Constructor" -> "constructor"
      [] self = "Function" -> "function"
      [] self = "Fallback" -> "fallback"
      [] self = "Receive" -> "receive"
      [] self = "Modifier" -> "modifier"

Storage == {"Memory", "Storage", "Calldata"}
Storage_doc(v) ==
    CASE v = "Memory" -> "memory"
      [] v = "Storage" -> "storage"
      [] v = "Calldata" -> "calldata"
Storage_to_str(self) ==
    CASE self = "Memory" -> "memory"
      [] self = "Storage" -> "storage"
      [] self = "Calldata" -> "calldata"

StateMutability == {"Pure", "View", "Payable"}
StateMutability_doc(v) ==
    CASE v = "Pure" -> "pure"
      [] v = "View" -> "view"
      [] v = "Payable" -> "payable"
StateMutability_to_str(self) ==
    CASE self = "Pure" -> "pure"
      [] self = "View" -> "view"
      [] self = "Payable" -> "payable"

Visibility == {"Private", "Internal", "Public", "External"}
Visibility_doc(v) ==
    CASE v = "Private" -> "private"
      [] v = "Internal" -> "internal"
      [] v = "Public" -> "public"
      [] v = "External" -> "external"
Visibility_to_str(self) ==
    CASE self = "Private" -> "private"
      [] self = "Internal" -> "internal"
      [] self = "Public" -> "public"
      [] self = "External" -> "external"

VarMut == {"Immutable", "Constant"}
VarMut_doc(v) ==
    CASE v = "Immutable" -> "immutable"
      [] v = "Constant" -> "constant"
VarMut_to_str(self) ==
    CASE self = "Immutable" -> "immutable"
      [] self = "Constant" -> "constant"

(***************************************************************************)
(* The item model as a state machine: each step is one method call on a    *)
(* value of the tree; the state keeps the last call and what it returned.  *)
(***************************************************************************)
InitAst ==
    /\ op = "none"
    /\ file = <<>>
    /\ cfg = None
    /\ idx = 0
    /\ status = "idle"
    /\ props = TestProps_new
    /\ revisions = <<>>
    /\ panic = NoPanic
    /\ call = NoCall
    /\ ret = NoCall

Call_as_name_and_value ==
    /\ \E p \in PragmaTokens :
        /\ call' = [fn |-> "as_name_and_value", ty |-> "PragmaTokens", self |-> p]
        /\ ret' = as_name_and_value(p)
    /\ UNCHANGED scanVars

Call_ContractKind_to_str ==
    /\ \E v \in ContractKind :
        /\ call' = [fn |-> "to_str", ty |-> "ContractKind", self |-> v]
        /\ ret' = ContractKind_to_str(v)
    /\ UNCHANGED scanVars

Call_FunctionKind_to_str ==
    /\ \E v \in FunctionKind :
        /\ call' = [fn |-> "to_str", ty |-> "FunctionKind", self |-> v]
        /\ ret' = FunctionKind_to_str(v)
    /\ UNCHANGED scanVars

Call_Storage_to_str ==
    /\ \E v \in Storage :
        /\ call' = [fn |-> "to_str", ty |-> "Storage", self |-> v]
        /\ ret' = Storage_to_str(v)
    /\ UNCHANGED scanVars

Call_StateMutability_to_str ==
    /\ \E v \in StateMutability :
        /\ call' = [fn |-> "to_str", ty |-> "StateMutability", self |-> v]
        /\ ret' = StateMutability_to_str(v)
    /\ UNCHANGED scanVars

Call_Visibility_to_str ==
    /\ \E v \in Visibility :
        /\ call' = [fn |-> "to_str", ty |-> "Visibility", self |-> v]
        /\ ret' = Visibility_to_str(v)
    /\ UNCHANGED scanVars

Call_VarMut_to_str ==
    /\ \E v \in VarMut :
        /\ call' = [fn |-> "to_str", ty |-> "VarMut", self |-> v]
        /\ ret' = VarMut_to_str(v)
    /\ UNCHANGED scanVars

Call_IdentOrStrLit_value ==
    /\ \E v \in IdentOrStrLit :
        /\ call' = [fn |-> "value", ty |-> "IdentOrStrLit", self |-> v]
        /\ ret' = IdentOrStrLit_value(v)
    /\ UNCHANGED scanVars

Call_IdentOrStrLit_span ==
    /\ \E v \in IdentOrStrLit :
        /\ call' = [fn |-> "span", ty |-> "IdentOrStrLit", self |-> v]
        /\ ret' = IdentOrStrLit_span(v)
    /\ UNCHANGED scanVars

NextAst ==
    \/ Call_as_name_and_value
    \/ Call_ContractKind_to_str
    \/ Call_FunctionKind_to_str
    \/ Call_Storage_to_str
    \/ Call_StateMutability_to_str
    \/ Call_Visibility_to_str
    \/ Call_VarMut_to_str
    \/ Call_IdentOrStrLit_value
    \/ Call_IdentOrStrLit_span

SpecAst == InitAst /\ [][NextAst]_vars

(***************************************************************************)
(* Claims about the item model.                                            *)
(***************************************************************************)
\* C9: as_name_and_value returns Some exactly for the Custom variant, and then
\* the variant's own name and value (the value absent exactly when Custom's
\* value is absent); for every Version and every Verbatim it returns None.
C9_NameAndValueOnlyForCustom ==
    call.fn = "as_name_and_value"
    => /\ IsSome(ret) <=> call.self.variant = "Custom"
       /\ call.self.variant \in {"Version", "Verbatim"} => ret = None
       /\ call.self.variant = "Custom"
          => /\ Unwrap(ret)[1] = call.self.f0
             /\ Unwrap(ret)[2] = call.self.f1
             /\ Unwrap(ret)[2] = None <=> call.self.f1 = None

C9_Witness ==
    /\ call.fn = "as_name_and_value"
    /\ call.self.variant = "Custom"
    /\ call.self.f0.variant = "StrLit"
    /\ call.self.f1 = None
    /\ ret = Some(<<call.self.f0, None>>)

\* the variants of the enum named ty, its documented keywords and its to_str
VariantsOf(ty) ==
    CASE ty = "ContractKind" -> ContractKind
      [] ty = "FunctionKind" -> FunctionKind
      [] ty = "Storage" -> Storage
      [] ty = "StateMutability" -> StateMutability
      [] ty = "Visibility" -> Visibility
      [] ty = "VarMut" -> VarMut
KeywordOf(ty, v) ==
    CASE ty = "ContractKind" -> ContractKind_doc(v)
      [] ty = "FunctionKind" -> FunctionKind_doc(v)
      [] ty = "Storage" -> Storage_doc(v)
      [] ty = "StateMutability" -> StateMutability_doc(v)
      [] ty = "Visibility" -> Visibility_doc(v)
      [] ty = "VarMut" -> VarMut_doc(v)
ToStrOf(ty, v) ==
    CASE ty = "ContractKind" -> ContractKind_to_str(v)
      [] ty = "FunctionKind" -> FunctionKind_to_str(v)
      [] ty = "Storage" -> Storage_to_str(v)
      [] ty = "StateMutability" -> StateMutability_to_str(v)
      [] ty = "Visibility" -> Visibility_to_str(v)
      [] ty = "VarMut" -> VarMut_to_str(v)

\* C10: for each of the six enums, the string to_str returned is the keyword the
\* variant is documented with (AbstractContract gives "abstract contract"), and
\* no other variant of the same enum yields that string.
C10_ToStrInjectiveKeyword ==
    call.fn = "to_str"
    => /\ ret = KeywordOf(call.ty, call.self)
       /\ \A v \in VariantsOf(call.ty) : ToStrOf(call.ty, v) = ret => v = call.self
       /\ (call.ty = "ContractKind" /\ call.self = "AbstractContract")
          => ret = "abstract contract"

C10_Witness ==
    /\ call.fn = "to_str"
    /\ call.ty = "ContractKind"
    /\ call.self = "AbstractContract"
    /\ ret = "abstract contract"

\* the text an IdentOrStrLit was built from: the identifier's name, or the
\* decoded content of the string literal
TextOf(v) == IF v.variant = "Ident" THEN v.f0.name ELSE v.f0.value

\* C11: value() returns the text of the identifier or literal, and every value
\* of the other variant built from the same text returns that same string;
\* span() returns the span of the variant that is present.
C11_ValueIsVariantIndependent ==
    /\ call.fn = "value"
       => /\ ret = TextOf(call.self)
          /\ \A w \in IdentOrStrLit :
                TextOf(w) = TextOf(call.self) => IdentOrStrLit_value(w) = ret
    /\ call.fn = "span" => ret = call.self.f0.span

C11_Witness ==
    /\ call.fn = "value"
    /\ call.self.variant = "StrLit"
    /\ ret = "abicoder"
    /\ \E i \in Idents :
        /\ i.name = "abicoder"
        /\ IdentOrStrLit_value([variant |-> "Ident", f0 |-> i]) = ret

====
